---------------------------- MODULE Spec2Model ----------------------------
(***************************************************************************)
(* Model of the fixture-seeding scripts of pg-tables-to-jsonschema:        *)
(* src/src/generateFakeData.ts (script "generateFakeData") and its older   *)
(* copy src/src/verify.ts (script "verify").  A run is main(): sort the    *)
(* table schemas topologically, purge, synthesize rows table by table into *)
(* fakeDataMap, then insert them.                                          *)
(*                                                                         *)
(* Titles are pairs <<namespace, name>> standing for "namespace.name".     *)
(* A JSON object is a sequence of [key, ...] entries in insertion order.   *)
(***************************************************************************)
EXTENDS Integers, Sequences, FiniteSets, TLC

VARIABLES script, schemas, users, pc, sorted, cleanIdx, tableIdx, rowIdx,
          fakeDataArray, fakeDataMap, entryIdx, recIdx, log, rng, failures,
          db, run, firstRun

vars == <<script, schemas, users, pc, sorted, cleanIdx, tableIdx, rowIdx,
          fakeDataArray, fakeDataMap, entryIdx, recIdx, log, rng, failures,
          db, run, firstRun>>

-----------------------------------------------------------------------------
(* Bounds of the model. *)

\* Most existing rows of auth.users that a run starts with.
MaxUsers == 2
\* Most database queries (DELETE, SELECT, INSERT) that fail in one run.
MaxFailures == 1
\* Most foreign-reference fields of one schema in the sort-only inputs.
MaxRefs == 2
\* Most members of an enum.
MaxEnum == 2

-----------------------------------------------------------------------------
(* Titles. *)

NoTable == <<"", "">>
AuthUsers == <<"auth", "users">>
ApiAuth == <<"public", "api_auth">>
TableA == <<"public", "a">>
TableB == <<"public", "b">>
TableC == <<"public", "c">>
\* A table that no run has a schema for.
External == <<"public", "ext">>

\* The key an absent title has in schemasMap: schemasMap[undefined] is
\* schemasMap['undefined'], a name with no namespace.
UndefinedKey == <<"", "undefined">>

\* tableName.startsWith('auth.')
StartsWithAuth(title) == title[1] = "auth"
\* tableName.endsWith('api_auth')
EndsWithApiAuth(title) == title[2] = "api_auth"

-----------------------------------------------------------------------------
(* Sequences used as insertion-ordered sets and maps. *)

Range(s) == {s[n] : n \in 1..Len(s)}
Reverse(s) == [n \in 1..Len(s) |-> s[Len(s) + 1 - n]]
\* Set.prototype.add: insertion order, no duplicate.
SetAdd(s, e) == IF e \in Range(s) THEN s ELSE Append(s, e)
IndexOf(s, e) == IF e \in Range(s) THEN CHOOSE n \in 1..Len(s) : s[n] = e ELSE 0

-----------------------------------------------------------------------------
(* JSON-Schema properties (JSONSchema7 plus isGenerated and foreignTable). *)
(* Absent members: title = NoTable, foreignTable = NoTable, enum = <<>>,    *)
(* format = "", type = "", hasProperties = FALSE, itemsForm = "none",      *)
(* id = NoId.                                                              *)

\* A $id: whether new URL() parses it, the directories of its path and its
\* file name, split into the stem and the extension.
SchemaId(isUrl, dirs, stem, ext) ==
  [present |-> TRUE, url |-> isUrl, dirs |-> dirs, stem |-> stem, ext |-> ext]
NoId == [present |-> FALSE, url |-> FALSE, dirs |-> <<>>, stem |-> "", ext |-> ""]
\* The $id SchemaConverter gives the schema of table t under config.output.baseUrl.
IdOf(t) == SchemaId(TRUE, <<"schemas", t[1]>>, t[2], ".json")

Property(gen, ft, en, fmt, ty, hasP, props, form, its) ==
  [title |-> NoTable, isGenerated |-> gen, foreignTable |-> ft, enum |-> en,
   format |-> fmt, type |-> ty, hasProperties |-> hasP, properties |-> props,
   itemsForm |-> form, items |-> its, id |-> NoId]

Scalar(ty, fmt) == Property(FALSE, NoTable, <<>>, fmt, ty, FALSE, <<>>, "none", <<>>)
Uuid == Scalar("string", "uuid")
Enum(en) == Property(FALSE, NoTable, en, "", "string", FALSE, <<>>, "none", <<>>)
\* A foreign-reference column: a uuid column annotated with foreignTable.
ForeignKey(ft) == Property(FALSE, ft, <<>>, "uuid", "string", FALSE, <<>>, "none", <<>>)
Generated(p) == [p EXCEPT !.isGenerated = TRUE]
Object(props) == Property(FALSE, NoTable, <<>>, "", "object", TRUE, props, "none", <<>>)
Array(item) == Property(FALSE, NoTable, <<>>, "", "array", FALSE, <<>>, "single", <<item>>)
TupleArray(its) == Property(FALSE, NoTable, <<>>, "", "array", FALSE, <<>>, "tuple", its)
Field(k, p) == [key |-> k, prop |-> p]

\* A table schema as SchemaConverter.convert() returns it.
Schema(t, props) == [Object(props) EXCEPT !.title = t, !.id = IdOf(t)]

-----------------------------------------------------------------------------
(* addForeignTableSchema *)

\* new URL(id) throws on a string that is no URL; the path needs two parts;
\* the key is '<second last part>.<last part without .json>'.
extractSchemaKeyFromId(id) ==
  IF ~id.url THEN [ok |-> FALSE, key |-> NoTable]
  ELSE IF Len(id.dirs) + 1 < 2 THEN [ok |-> FALSE, key |-> NoTable]
  ELSE [ok |-> TRUE, key |-> <<id.dirs[Len(id.dirs)], id.stem>>]

\* The first forEach: a schema without $id is passed over, a $id that
\* extractSchemaKeyFromId rejects throws out of addForeignTableSchema. What
\* follows only attaches foreignTableSchema to properties, which nothing in
\* the run reads, and returns the schemas in the same order.
addForeignTableSchema(jsonSchemas) ==
  [ok |-> \A n \in 1..Len(jsonSchemas) :
            jsonSchemas[n].id.present => extractSchemaKeyFromId(jsonSchemas[n].id).ok,
   schemas |-> jsonSchemas]

-----------------------------------------------------------------------------
(* findForeignTables *)

RECURSIVE traverseProperties(_, _)
RECURSIVE traverseItems(_, _)

\* The body of property.items.forEach / of the single-items branch.
traverseItem(item, found) ==
  LET f1 == IF item.hasProperties THEN traverseProperties(item.properties, found)
            ELSE found
  IN IF item.foreignTable # NoTable THEN SetAdd(f1, item.foreignTable) ELSE f1

traverseItems(its, found) ==
  IF its = <<>> THEN found
  ELSE traverseItems(Tail(its), traverseItem(Head(its), found))

traverseProperties(properties, found) ==
  IF properties = <<>> THEN found
  ELSE LET property == Head(properties).prop
           f1 == IF property.foreignTable # NoTable
                 THEN SetAdd(found, property.foreignTable) ELSE found
           f2 == IF property.hasProperties
                 THEN traverseProperties(property.properties, f1) ELSE f1
           f3 == IF property.itemsForm = "none" THEN f2
                 ELSE traverseItems(property.items, f2)
       IN traverseProperties(Tail(properties), f3)

findForeignTables(schema) ==
  IF schema.hasProperties THEN traverseProperties(schema.properties, <<>>) ELSE <<>>

-----------------------------------------------------------------------------
(* topologicalSort *)

\* The property key a title is stored under: String(title).
KeyOf(title) == IF title = NoTable THEN UndefinedKey ELSE title

\* Object.keys(schemasMap): the titles in order of first occurrence.
RECURSIVE schemasMapKeys(_, _)
schemasMapKeys(schemasArray, keys) ==
  IF schemasArray = <<>> THEN keys
  ELSE schemasMapKeys(Tail(schemasArray), SetAdd(keys, KeyOf(Head(schemasArray).title)))

\* adjList.get(node) || new Set()
Neighbors(adjList, node) == IF node \in DOMAIN adjList THEN adjList[node] ELSE <<>>

\* One schema's foreignTables.forEach: adjList.get(foreignTable).add(title).
RECURSIVE addEdges(_, _, _, _)
addEdges(foreignTables, title, keys, adjList) ==
  IF foreignTables = <<>> THEN adjList
  ELSE LET foreignTable == Head(foreignTables)
           next == IF foreignTable \in Range(keys)
                   THEN [k \in DOMAIN adjList \cup {foreignTable} |->
                           IF k = foreignTable
                           THEN SetAdd(Neighbors(adjList, foreignTable), title)
                           ELSE adjList[k]]
                   ELSE adjList
       IN addEdges(Tail(foreignTables), title, keys, next)

RECURSIVE buildGraph(_, _, _)
buildGraph(schemasArray, keys, adjList) ==
  IF schemasArray = <<>> THEN adjList
  ELSE buildGraph(Tail(schemasArray), keys,
                  addEdges(findForeignTables(Head(schemasArray)),
                           Head(schemasArray).title, keys, adjList))

\* adjList is a Map keyed by the titles themselves (an absent title is the
\* key undefined), schemasMap an object keyed by their strings.
AdjList(schemasArray) ==
  LET keys == schemasMapKeys(schemasArray, <<>>)
  IN buildGraph(schemasArray, keys,
                [k \in {schemasArray[n].title : n \in 1..Len(schemasArray)} |-> <<>>])

\* The closure's state: visited, onStack, stack.
RECURSIVE detectCycle(_, _, _)
RECURSIVE detectNeighbors(_, _, _)

\* A detectCycle that never reports an in-progress node.
OnStackHit_Never(node, st) == FALSE

\* A detectCycle that takes every node seen before for an in-progress one.
OnStackHit_Visited(node, st) == node \in st.visited

\* if (onStack.has(node)) return true
OnStackHit(node, st) == node \in st.onStack

detectCycle(node, adjList, st) ==
  IF OnStackHit(node, st) THEN [cycle |-> TRUE, st |-> st]
  ELSE IF node \in st.visited THEN [cycle |-> FALSE, st |-> st]
  ELSE LET entered == [st EXCEPT !.visited = @ \cup {node}, !.onStack = @ \cup {node}]
           r == detectNeighbors(Neighbors(adjList, node), adjList, entered)
       IN IF r.cycle THEN r
          ELSE [cycle |-> FALSE,
                st |-> [r.st EXCEPT !.onStack = @ \ {node}, !.stack = Append(@, node)]]

detectNeighbors(neighbors, adjList, st) ==
  IF neighbors = <<>> THEN [cycle |-> FALSE, st |-> st]
  ELSE LET r == detectCycle(Head(neighbors), adjList, st)
       IN IF r.cycle THEN r ELSE detectNeighbors(Tail(neighbors), adjList, r.st)

\* Object.keys(schemasMap).forEach: the first root that finds a cycle throws.
RECURSIVE sortRoots(_, _, _)
sortRoots(roots, adjList, st) ==
  IF roots = <<>> THEN [ok |-> TRUE, order |-> st.stack, node |-> NoTable]
  ELSE LET node == Head(roots)
       IN IF node \in st.visited THEN sortRoots(Tail(roots), adjList, st)
          ELSE LET r == detectCycle(node, adjList, st)
               IN IF r.cycle THEN [ok |-> FALSE, order |-> <<>>, node |-> node]
                  ELSE sortRoots(Tail(roots), adjList, r.st)

\* A sort that forgets to reverse the finish order.
FinalOrder_NoReverse(stack) == stack

\* return stack.reverse()
FinalOrder(stack) == Reverse(stack)

\* ok: the order returned; ~ok: thrown, node is the table named in the Error.
topologicalSort(schemasArray) ==
  LET keys == schemasMapKeys(schemasArray, <<>>)
      r == sortRoots(keys, AdjList(schemasArray),
                     [visited |-> {}, onStack |-> {}, stack |-> <<>>])
  IN IF r.ok THEN [r EXCEPT !.order = FinalOrder(r.order)] ELSE r

-----------------------------------------------------------------------------
(* Values of a synthesized row. *)

Value(k, m, es, fs) == [kind |-> k, n |-> m, elems |-> es, fields |-> fs]
\* The n-th draw of the faker stream: a value no other draw returns.
Rand(m) == Value("rand", m, <<>>, <<>>)
\* The id of the m-th existing row of auth.users.
UserKey(m) == Value("user", m, <<>>, <<>>)
EnumMember(m) == Value("enum", m, <<>>, <<>>)
Null == Value("null", 0, <<>>, <<>>)
Undefined == Value("undefined", 0, <<>>, <<>>)
ArrayValue(es) == Value("array", 0, es, <<>>)
\* A record; n remembers the index generateFakeData was called with.
ObjectValue(fs, index) == Value("object", index, <<>>, fs)
\* A Promise of a record, as verify.ts stores for a nested object.
PromiseValue(fs, index) == Value("promise", index, <<>>, fs)
Entry(k, v) == [key |-> k, val |-> v]

Keys(fs) == [n \in 1..Len(fs) |-> fs[n].key]
HasKey(fs, k) == \E n \in 1..Len(fs) : fs[n].key = k
\* obj[k]: undefined when the key is absent.
Get(fs, k) == IF HasKey(fs, k) THEN fs[CHOOSE n \in 1..Len(fs) : fs[n].key = k].val
              ELSE Undefined
\* obj[k] = v
Put(fs, k, v) == IF HasKey(fs, k)
                 THEN [n \in 1..Len(fs) |-> IF fs[n].key = k THEN Entry(k, v) ELSE fs[n]]
                 ELSE Append(fs, Entry(k, v))

\* fakeDataMap[title]: the rows, <<>> with found = FALSE when there is no entry.
MapHas(map, title) == \E n \in 1..Len(map) : map[n].key = title
MapGet(map, title) == IF MapHas(map, title)
                      THEN map[CHOOSE n \in 1..Len(map) : map[n].key = title].val
                      ELSE <<>>

-----------------------------------------------------------------------------
(* Row synthesis.  st threads what a call reads and advances: rng (draws   *)
(* taken from faker), pick (the enum member faker chooses), queries (the   *)
(* SELECTs issued by this row so far, each with its OFFSET and outcome)    *)
(* and errs (which of them, by position, the database fails).              *)

\* Generating 5 entries per array (generateFakeData.ts), one (verify.ts).
ArraySize == 5
VerifyArraySize == 1
\* verify.ts passes index 1 to a nested object.
VerifyNestedIndex == 1

Draw(st) == [val |-> Rand(st.rng), st |-> [st EXCEPT !.rng = @ + 1]]

\* faker.helpers.arrayElement(property.enum): any member, chosen by st.pick.
PickEnum(en, st) == [val |-> EnumMember(en[((st.pick - 1) % Len(en)) + 1]), st |-> st]

\* SELECT id FROM auth.users LIMIT 1 OFFSET index; [] when the query throws.
fetchDataFromTable(index, st) ==
  LET call == Len(st.queries) + 1
      asked(good) == [st EXCEPT !.queries = Append(@, [offset |-> index, ok |-> good])]
  IN IF call \in st.errs
     THEN [rows |-> <<>>, st |-> asked(FALSE)]
     ELSE [rows |-> IF index < Len(users)
                    THEN <<ObjectValue(<<Entry("id", users[index + 1])>>, 0)>>
                    ELSE <<>>,
           st |-> asked(TRUE)]

\* A resolution that always takes the first row.
PickRow_First(foreignData, index) == foreignData[1]

\* foreignData[index % foreignData.length]
PickRow(foreignData, index) == foreignData[(index % Len(foreignData)) + 1]

\* row.id
RowId(row) == Get(row.fields, "id")

\* A resolution that sets the field even when no row was found.
SetIfFound_Always(data, key, foreignData, index) ==
  Put(data, key, IF Len(foreignData) > 0 THEN RowId(PickRow(foreignData, index))
                 ELSE Undefined)

\* if (foreignData.length > 0) data[key] = foreignData[...].id: from the rows a
\* SELECT returned (index 0) or from the rows of fakeDataMap.
SetIfFound(data, key, foreignData, index) ==
  IF Len(foreignData) > 0 THEN Put(data, key, RowId(PickRow(foreignData, index)))
  ELSE data

RECURSIVE generatePropertyData(_, _, _, _)
RECURSIVE generateArray(_, _, _, _, _, _)
RECURSIVE generateProperties(_, _, _, _, _)
RECURSIVE generateFakeData(_, _, _, _)

\* A skip that comes after the test for a foreign reference.
SkipsGenerated_UnlessForeign(property) ==
  property.isGenerated /\ property.foreignTable = NoTable

\* if (property.isGenerated) continue
SkipsGenerated(property) == property.isGenerated

\* The body of the for-in loop of generateFakeData for one key.
generateField(key, property, data, map, index, st) ==
  IF SkipsGenerated(property) THEN [data |-> data, st |-> st]
  ELSE IF property.foreignTable # NoTable
  THEN IF property.foreignTable = AuthUsers
       THEN LET f == fetchDataFromTable(index, st)
            IN [data |-> SetIfFound(data, key, f.rows, 0), st |-> f.st]
       ELSE LET foreignData == MapGet(map, property.foreignTable)
            IN [data |-> SetIfFound(data, key, foreignData, index), st |-> st]
  ELSE LET g == generatePropertyData(property, index, map, st)
       IN [data |-> Put(data, key, g.val), st |-> g.st]

generateProperties(properties, data, map, index, st) ==
  IF properties = <<>> THEN [data |-> data, st |-> st]
  ELSE LET r == generateField(Head(properties).key, Head(properties).prop,
                              data, map, index, st)
       IN generateProperties(Tail(properties), r.data, map, index, r.st)

generateFakeData(schema, map, index, st) ==
  IF schema.title # NoTable /\ StartsWithAuth(schema.title)
  THEN [val |-> Null, st |-> st]
  ELSE IF schema.hasProperties
  THEN LET r == generateProperties(schema.properties, <<>>, map, index, st)
       IN [val |-> ObjectValue(r.data, index), st |-> r.st]
  ELSE [val |-> ObjectValue(<<>>, index), st |-> st]

generateArray(count, itemsSchema, arrayData, index, map, st) ==
  IF count = 0 THEN [val |-> ArrayValue(arrayData), st |-> st]
  ELSE LET g == generatePropertyData(itemsSchema, index, map, st)
       IN generateArray(count - 1, itemsSchema, Append(arrayData, g.val),
                        index, map, g.st)

\* The nested-object branch: awaited with the row's index and map in
\* generateFakeData.ts; a Promise over an empty map and index 1 in verify.ts.
generateNested(property, index, map, st) ==
  IF script = "verify"
  THEN LET g == generateFakeData(property, <<>>, VerifyNestedIndex, st)
       IN [val |-> PromiseValue(g.val.fields, g.val.n), st |-> g.st]
  ELSE generateFakeData(property, map, index, st)

\* const itemsSchema = property.items as JSONSchema7: the schema of the
\* items, or, when items lists several shapes, the list itself, an object
\* with none of the members generatePropertyData reads.
itemsSchema(property) ==
  IF property.itemsForm = "single" THEN property.items[1] ELSE Scalar("", "")

generatePropertyData(property, index, map, st) ==
  IF property.enum # <<>> THEN PickEnum(property.enum, st)
  ELSE IF property.format = "uuid" THEN Draw(st)
  ELSE IF property.format = "date-time" THEN Draw(st)
  ELSE IF property.type \in {"string", "number", "integer", "boolean"} THEN Draw(st)
  ELSE IF property.type = "array" /\ property.itemsForm # "none"
  THEN generateArray(IF script = "verify" THEN VerifyArraySize ELSE ArraySize,
                     itemsSchema(property), <<>>, index, map, st)
  ELSE IF property.type = "object" /\ property.hasProperties
  THEN generateNested(property, index, map, st)
  ELSE [val |-> Null, st |-> st]

-----------------------------------------------------------------------------
(* main *)

\* for (let i = 0; i < 5; i++) in generateFakeData.ts, i < 10 in verify.ts.
PerTableCount == 5
VerifyPerTableCount == 10
RowCount == IF script = "verify" THEN VerifyPerTableCount ELSE PerTableCount

\* A loop guard that only knows the auth. prefix.
SkippedByMain_AuthOnly(title) == StartsWithAuth(title)

\* The tables main never synthesizes: the negation of the guard of its loop.
SkippedByMain(title) ==
  IF script = "verify" THEN StartsWithAuth(title)
  ELSE StartsWithAuth(title) \/ EndsWithApiAuth(title)

\* The tables cleanDatabase never deletes from: the negation of its guard.
SkippedByClean(title) ==
  IF script = "verify" THEN StartsWithAuth(title)
  ELSE StartsWithAuth(title) \/ EndsWithApiAuth(title)

\* updatedOutputSchemas.find(s => s.title === schemaTitle)
HasSchema(title) == \E n \in 1..Len(schemas) : schemas[n].title = title
FindSchema(title) ==
  schemas[CHOOSE n \in 1..Len(schemas) :
            /\ schemas[n].title = title
            /\ \A m \in 1..(n - 1) : schemas[m].title # title]

\* db: the number of rows the database holds in each table a schema names,
\* counting the rows written since the first run started. DELETE FROM empties
\* a table and a successful INSERT adds a row; a failed query changes nothing.
\* run: 1 in the first execution of the script, 2 in a second one against
\* the same database; firstRun: db as the first execution left it.

\* A query sent to the database: its table, the index of the record (INSERT)
\* or the OFFSET (SELECT), the columns (INSERT), whether it succeeded, and
\* the table main was working on when it sent it.
Query(o, t, r, cols, good, owner) ==
  [op |-> o, table |-> t, row |-> r, columns |-> cols, ok |-> good, by |-> owner]

\* The SELECTs one call of generateFakeData made for a row of table title.
Selects(queries, title) ==
  [n \in 1..Len(queries) |->
     Query("SELECT", AuthUsers, queries[n].offset, <<>>, queries[n].ok, title)]
Failed(queries) == Cardinality({n \in 1..Len(queries) : ~queries[n].ok})

\* The tables the database holds: one for each title a schema has.
HasRelation(title) == title # NoTable /\ HasSchema(title)

\* const updatedOutputSchemas = addForeignTableSchema(outputSchemas);
\* const sortedSchemas = topologicalSort(updatedOutputSchemas); a throw of
\* either rejects main, which main().catch(console.error) only prints:
\* "failed" after a TypeError or an invalid $id, "rejected" after a cycle.
Sort ==
  /\ pc = "sort"
  /\ IF addForeignTableSchema(schemas).ok
     THEN /\ sorted' = topologicalSort(addForeignTableSchema(schemas).schemas)
          /\ pc' = IF sorted'.ok THEN "clean" ELSE "rejected"
     ELSE /\ sorted' = sorted
          /\ pc' = "failed"
  /\ UNCHANGED <<script, schemas, users, cleanIdx, tableIdx, rowIdx, fakeDataArray,
                 fakeDataMap, entryIdx, recIdx, log, rng, failures>>
  /\ UNCHANGED <<db, run, firstRun>>

\* cleanDatabase: an iteration over a table its guard excludes.
CleanSkip ==
  /\ pc = "clean"
  /\ cleanIdx <= Len(sorted.order)
  /\ SkippedByClean(sorted.order[cleanIdx])
  /\ cleanIdx' = cleanIdx + 1
  /\ UNCHANGED <<script, schemas, users, pc, sorted, tableIdx, rowIdx, fakeDataArray,
                 fakeDataMap, entryIdx, recIdx, log, rng, failures>>
  /\ UNCHANGED <<db, run, firstRun>>

\* cleanDatabase: DELETE FROM tableName succeeds.
CleanDelete ==
  /\ pc = "clean"
  /\ cleanIdx <= Len(sorted.order)
  /\ HasRelation(sorted.order[cleanIdx])
  /\ ~SkippedByClean(sorted.order[cleanIdx])
  /\ log' = Append(log, Query("DELETE", sorted.order[cleanIdx], 0, <<>>, TRUE,
                            sorted.order[cleanIdx]))
  /\ cleanIdx' = cleanIdx + 1
  /\ UNCHANGED <<script, schemas, users, pc, sorted, tableIdx, rowIdx, fakeDataArray,
                 fakeDataMap, entryIdx, recIdx, rng, failures>>
  /\ db' = [db EXCEPT ![sorted.order[cleanIdx]] = 0]
  /\ UNCHANGED <<run, firstRun>>

\* A purge whose catch is inside the loop and goes on with the next table.
AfterFailedDelete_NextTable(i) == [pc |-> "clean", cleanIdx |-> i + 1]

\* Where a DELETE that throws at entry i leaves the run: the catch is outside
\* the loop, cleanDatabase returns and main goes on to synthesize.
AfterFailedDelete(i) == [pc |-> "populate", cleanIdx |-> i]

\* cleanDatabase: DELETE FROM tableName throws; the catch is outside the loop.
CleanDeleteFails ==
  /\ pc = "clean"
  /\ cleanIdx <= Len(sorted.order)
  /\ HasRelation(sorted.order[cleanIdx])
  /\ ~SkippedByClean(sorted.order[cleanIdx])
  /\ failures < MaxFailures
  /\ failures' = failures + 1
  /\ log' = Append(log, Query("DELETE", sorted.order[cleanIdx], 0, <<>>, FALSE,
                            sorted.order[cleanIdx]))
  /\ pc' = AfterFailedDelete(cleanIdx).pc
  /\ cleanIdx' = AfterFailedDelete(cleanIdx).cleanIdx
  /\ UNCHANGED <<script, schemas, users, sorted, tableIdx, rowIdx,
                 fakeDataArray, fakeDataMap, entryIdx, recIdx, rng>>
  /\ UNCHANGED <<db, run, firstRun>>

\* cleanDatabase: an entry of the order that names no table. undefined (an
\* absent title reached as a neighbour) makes tableName.startsWith throw a
\* TypeError; 'undefined' (the key of an absent title) passes the guard and
\* DELETE FROM undefined names no relation. Either lands in the catch.
CleanThrows ==
  /\ pc = "clean"
  /\ cleanIdx <= Len(sorted.order)
  /\ ~HasRelation(sorted.order[cleanIdx])
  /\ log' = IF sorted.order[cleanIdx] = NoTable THEN log
            ELSE Append(log, Query("DELETE", sorted.order[cleanIdx], 0, <<>>, FALSE,
                                   sorted.order[cleanIdx]))
  /\ pc' = "populate"
  /\ UNCHANGED <<script, schemas, users, sorted, cleanIdx, tableIdx, rowIdx,
                 fakeDataArray, fakeDataMap, entryIdx, recIdx, rng, failures>>
  /\ UNCHANGED <<db, run, firstRun>>

\* cleanDatabase returns after its last table.
CleanDone ==
  /\ pc = "clean"
  /\ cleanIdx > Len(sorted.order)
  /\ pc' = "populate"
  /\ UNCHANGED <<script, schemas, users, sorted, cleanIdx, tableIdx, rowIdx,
                 fakeDataArray, fakeDataMap, entryIdx, recIdx, log, rng, failures>>
  /\ UNCHANGED <<db, run, firstRun>>

\* main's loop over sortedSchemas: a title with no schema or one it skips.
PopulateSkip ==
  /\ pc = "populate"
  /\ tableIdx <= Len(sorted.order)
  /\ \/ ~HasSchema(sorted.order[tableIdx])
     \/ SkippedByMain(sorted.order[tableIdx])
  /\ tableIdx' = tableIdx + 1
  /\ UNCHANGED <<script, schemas, users, pc, sorted, cleanIdx, rowIdx, fakeDataArray,
                 fakeDataMap, entryIdx, recIdx, log, rng, failures>>
  /\ UNCHANGED <<db, run, firstRun>>

\* main's loop at the entry undefined: find returns the schema without a
\* title and schema.title.startsWith throws a TypeError that rejects main.
PopulateThrows ==
  /\ pc = "populate"
  /\ tableIdx <= Len(sorted.order)
  /\ sorted.order[tableIdx] = NoTable
  /\ HasSchema(NoTable)
  /\ pc' = "failed"
  /\ UNCHANGED <<script, schemas, users, sorted, cleanIdx, tableIdx, rowIdx,
                 fakeDataArray, fakeDataMap, entryIdx, recIdx, log, rng, failures>>
  /\ UNCHANGED <<db, run, firstRun>>

\* fakeDataMap[schemaTitle] = fakeDataArray
StoreRows(map, title, rows) ==
  IF MapHas(map, title)
  THEN [n \in 1..Len(map) |-> IF map[n].key = title THEN Entry(title, rows) ELSE map[n]]
  ELSE Append(map, Entry(title, rows))

\* A loop that passes the same index for every row.
RowIndex_Zero(i) == 0

\* The row index main passes to generateFakeData.
RowIndex(i) == i

\* fakeDataArray.push(await generateFakeData(schema, fakeDataMap, client, i));
\* after the last row of the table, fakeDataMap[schemaTitle] = fakeDataArray.
GenerateRow ==
  /\ pc = "populate"
  /\ tableIdx <= Len(sorted.order)
  /\ HasSchema(sorted.order[tableIdx])
  /\ sorted.order[tableIdx] # NoTable
  /\ ~SkippedByMain(sorted.order[tableIdx])
  /\ rowIdx < RowCount
  /\ LET title == sorted.order[tableIdx]
         schema == FindSchema(title)
         dry == generateFakeData(schema, fakeDataMap, RowIndex(rowIdx),
                  [rng |-> rng, pick |-> 1, queries |-> <<>>, errs |-> {}])
     IN \E errs \in SUBSET (1..Len(dry.st.queries)), pick \in 1..MaxEnum :
          /\ failures + Cardinality(errs) <= MaxFailures
          /\ LET r == generateFakeData(schema, fakeDataMap, RowIndex(rowIdx),
                        [rng |-> rng, pick |-> pick, queries |-> <<>>, errs |-> errs])
                 rows == Append(fakeDataArray, r.val)
             IN /\ rng' = r.st.rng
                /\ failures' = failures + Failed(r.st.queries)
                /\ log' = log \o Selects(r.st.queries, title)
                /\ IF rowIdx + 1 < RowCount
                   THEN /\ fakeDataArray' = rows
                        /\ rowIdx' = rowIdx + 1
                        /\ UNCHANGED <<fakeDataMap, tableIdx>>
                   ELSE /\ fakeDataMap' = StoreRows(fakeDataMap, title, rows)
                        /\ fakeDataArray' = <<>>
                        /\ rowIdx' = 0
                        /\ tableIdx' = tableIdx + 1
  /\ UNCHANGED <<script, schemas, users, pc, sorted, cleanIdx, entryIdx, recIdx>>
  /\ UNCHANGED <<db, run, firstRun>>

\* The loop over sortedSchemas ends: await insertFakeData(fakeDataMap).
PopulateDone ==
  /\ pc = "populate"
  /\ tableIdx > Len(sorted.order)
  /\ pc' = "insert"
  /\ UNCHANGED <<script, schemas, users, sorted, cleanIdx, tableIdx, rowIdx,
                 fakeDataArray, fakeDataMap, entryIdx, recIdx, log, rng, failures>>
  /\ UNCHANGED <<db, run, firstRun>>

\* The INSERT of the record at (entryIdx, recIdx): columns = Object.keys(data).
InsertQuery(good) ==
  Query("INSERT", fakeDataMap[entryIdx].key, recIdx - 1,
        Keys(fakeDataMap[entryIdx].val[recIdx].fields), good, fakeDataMap[entryIdx].key)

\* An insertFakeData whose only catch is outside both loops.
AfterFailedInsert_Abort == "done"

\* What insertFakeData does after a failed INSERT: generateFakeData.ts catches
\* it inside the loops and goes on; verify.ts catches it outside both loops.
AfterFailedInsert == IF script = "verify" THEN "done" ELSE "insert"

\* insertFakeData: the INSERT of one record succeeds.
InsertRecord ==
  /\ pc = "insert"
  /\ entryIdx <= Len(fakeDataMap)
  /\ log' = Append(log, InsertQuery(TRUE))
  /\ IF recIdx < Len(fakeDataMap[entryIdx].val)
     THEN recIdx' = recIdx + 1 /\ UNCHANGED entryIdx
     ELSE recIdx' = 1 /\ entryIdx' = entryIdx + 1
  /\ UNCHANGED <<script, schemas, users, pc, sorted, cleanIdx, tableIdx, rowIdx,
                 fakeDataArray, fakeDataMap, rng, failures>>
  /\ db' = [db EXCEPT ![fakeDataMap[entryIdx].key] = @ + 1]
  /\ UNCHANGED <<run, firstRun>>

\* insertFakeData: the INSERT of one record throws.
InsertRecordFails ==
  /\ pc = "insert"
  /\ entryIdx <= Len(fakeDataMap)
  /\ failures < MaxFailures
  /\ failures' = failures + 1
  /\ log' = Append(log, InsertQuery(FALSE))
  /\ pc' = AfterFailedInsert
  /\ IF recIdx < Len(fakeDataMap[entryIdx].val)
     THEN recIdx' = recIdx + 1 /\ UNCHANGED entryIdx
     ELSE recIdx' = 1 /\ entryIdx' = entryIdx + 1
  /\ UNCHANGED <<script, schemas, users, sorted, cleanIdx, tableIdx, rowIdx,
                 fakeDataArray, fakeDataMap, rng>>
  /\ UNCHANGED <<db, run, firstRun>>

\* insertFakeData returns after the last entry of fakeDataMap.
InsertDone ==
  /\ pc = "insert"
  /\ entryIdx > Len(fakeDataMap)
  /\ pc' = "done"
  /\ UNCHANGED <<script, schemas, users, sorted, cleanIdx, tableIdx, rowIdx,
                 fakeDataArray, fakeDataMap, entryIdx, recIdx, log, rng, failures>>
  /\ UNCHANGED <<db, run, firstRun>>

-----------------------------------------------------------------------------
(* Inputs: what SchemaConverter.convert() returns and what auth.users holds. *)

\* How a field can refer to table t: directly, inside a nested object, or as
\* the items of an array.
RefShapes(t) ==
  {ForeignKey(t), Object(<<Field("fk", ForeignKey(t))>>), Array(ForeignKey(t))}

IdProps == {Uuid, Generated(Uuid)}

\* public.a: no reference, or a direct one to itself, to public.b or to the
\* unknown table.
RefsOfA ==
  {<<>>} \cup {<<Field("ref", ForeignKey(t))>> : t \in {TableA, TableB, External}}

\* Fields the database computes that also declare a reference or an enum, at
\* top level, in a nested object and in the objects of an array.
GeneratedShapes ==
  {Generated(ForeignKey(TableA)),
   Generated(Enum([n \in 1..MaxEnum |-> n])),
   Object(<<Field("gen", Generated(Uuid)), Field("gfk", Generated(ForeignKey(TableA))),
            Field("genum", Generated(Enum([n \in 1..MaxEnum |-> n]))),
            Field("v", Uuid)>>),
   Array(Object(<<Field("gen", Generated(Uuid)), Field("v", Uuid)>>))}

\* public.b: no reference, or one of any shape to public.a, to a protected
\* table or to the unknown table, or a field with generated parts.

RefsOfB ==
  {<<>>}
  \cup {<<Field("ref", p)>> :
          p \in UNION {RefShapes(t) : t \in {TableA, AuthUsers, ApiAuth, External}}}
  \cup {<<Field("ref", p)>> : p \in GeneratedShapes}

TableSchema(t, idProp, refs) ==
  Schema(t, <<Field("id", idProp), Field("name", Scalar("string", ""))>> \o refs)

AuthUsersSchema == TableSchema(AuthUsers, Generated(Uuid), <<>>)
ApiAuthSchema == TableSchema(ApiAuth, Uuid, <<>>)

RunInputs ==
  UNION {{<<AuthUsersSchema, a, b, ApiAuthSchema>>, <<ApiAuthSchema, b, a, AuthUsersSchema>>} :
           a \in {TableSchema(TableA, i, r) : i \in IdProps, r \in RefsOfA},
           b \in {TableSchema(TableB, Uuid, r) : r \in RefsOfB}}

\* Whether some schema of the input refers to table t at all.
RefersTo(input, t) == \E n \in 1..Len(input) : t \in Range(findForeignTables(input[n]))

\* The rows auth.users holds before the run, in the order SELECT returns them.
ExistingUsers(k) == [j \in 1..k |-> UserKey(j)]

InitRun(name, inputs, maxUsers) ==
  /\ script = name
  /\ schemas \in inputs
  /\ \E k \in 0..maxUsers :
       /\ k > 0 => RefersTo(schemas, AuthUsers)
       /\ users = ExistingUsers(k)
  /\ pc = "sort"
  /\ sorted = [ok |-> FALSE, order |-> <<>>, node |-> NoTable]
  /\ cleanIdx = 1
  /\ tableIdx = 1
  /\ rowIdx = 0
  /\ fakeDataArray = <<>>
  /\ fakeDataMap = <<>>
  /\ entryIdx = 1
  /\ recIdx = 1
  /\ log = <<>>
  /\ rng = 1
  /\ failures = 0
  /\ db = [t \in {schemas[n].title : n \in 1..Len(schemas)} |-> 0]
  /\ run = 1
  /\ firstRun = db

Init == InitRun("generateFakeData", RunInputs, MaxUsers)

\* Inputs of the verify.ts runs (10 rows a table): public.a, and public.b with
\* each kind of reference to it or to auth.users.
VerifyInputs ==
  {<<AuthUsersSchema, TableSchema(TableB, Uuid, r), TableSchema(TableA, Uuid, <<>>)>> :
     r \in {<<>>} \cup {<<Field("ref", p)>> :
                         p \in RefShapes(TableA) \cup {ForeignKey(AuthUsers)}}}

InitVerify == InitRun("verify", VerifyInputs, MaxUsers)

Next ==
  \/ Sort
  \/ CleanSkip
  \/ CleanDelete
  \/ CleanDeleteFails
  \/ CleanDone
  \/ PopulateSkip
  \/ GenerateRow
  \/ PopulateDone
  \/ InsertRecord
  \/ InsertRecordFails
  \/ InsertDone

Spec == Init /\ [][Next]_vars

SpecVerify == InitVerify /\ [][Next]_vars

-----------------------------------------------------------------------------
(* The script executed twice against the same database: the second         *)
(* execution starts from a fresh program state (a new process: main() is   *)
(* called once per execution) and from the rows the first one left.        *)

Rerun ==
  /\ pc = "done"
  /\ run = 1
  /\ run' = 2
  /\ firstRun' = db
  /\ pc' = "sort"
  /\ sorted' = [ok |-> FALSE, order |-> <<>>, node |-> NoTable]
  /\ cleanIdx' = 1
  /\ tableIdx' = 1
  /\ rowIdx' = 0
  /\ fakeDataArray' = <<>>
  /\ fakeDataMap' = <<>>
  /\ entryIdx' = 1
  /\ recIdx' = 1
  /\ UNCHANGED <<script, schemas, users, log, rng, failures, db>>

\* public.a and public.b, in both input orders, public.b with no reference
\* or with a reference to public.a or to auth.users.
TwiceInputs ==
  UNION {{<<AuthUsersSchema, a, b>>, <<b, a, AuthUsersSchema>>} :
           a \in {TableSchema(TableA, Uuid, <<>>)},
           b \in {TableSchema(TableB, Uuid, r) :
                    r \in {<<>>, <<Field("ref", ForeignKey(TableA))>>,
                           <<Field("ref", ForeignKey(AuthUsers))>>}}}

InitTwice == InitRun("generateFakeData", TwiceInputs, MaxUsers)

NextTwice == Next \/ Rerun

SpecTwice == InitTwice /\ [][NextTwice]_vars

-----------------------------------------------------------------------------
(* The sort alone, over every dependency graph of three tables and an      *)
(* unknown table, each schema holding at most MaxRefs references, the      *)
(* three schemas in every input order, followed by auth.users, which       *)
(* nothing references.                                                     *)

SortFields ==
  <<Field("a_id", ForeignKey(TableA)), Field("b_id", ForeignKey(TableB)),
    Field("c_id", ForeignKey(TableC)), Field("ext_id", ForeignKey(External))>>

RefSets == {S \in SUBSET (1..Len(SortFields)) : Cardinality(S) <= MaxRefs}
RefFields(S) == SelectSeq([n \in 1..Len(SortFields) |-> [at |-> n, f |-> SortFields[n]]],
                          LAMBDA e : e.at \in S)
SortSchema(t, S) ==
  TableSchema(t, Uuid, [n \in 1..Len(RefFields(S)) |-> RefFields(S)[n].f])

Permutations3 == {p \in [1..3 -> 1..3] : \A x, y \in 1..3 : p[x] = p[y] => x = y}

SortInputs ==
  {[n \in 1..4 |-> IF n = 4 THEN AuthUsersSchema
                   ELSE <<SortSchema(TableA, ra), SortSchema(TableB, rb),
                          SortSchema(TableC, rc)>>[p[n]]] :
     ra \in RefSets, rb \in RefSets, rc \in RefSets, p \in Permutations3}

InitSort == InitRun("generateFakeData", SortInputs, 0)

SpecSort == InitSort /\ [][Sort]_vars

-----------------------------------------------------------------------------
(* Runs over auth.users, public.a, public.b (with or without a reference   *)
(* to public.a) and one more schema, that of public.c, which lacks part of *)
(* its identity: no $id, a $id that is no URL, a $id with a one-part path, *)
(* or no title (with and without a reference to public.a).                 *)

WithId(schema, id) == [schema EXCEPT !.id = id]
WithoutTitle(schema) == [schema EXCEPT !.title = NoTable]

LackingIdentity ==
  {WithId(TableSchema(TableC, Uuid, <<>>), NoId),
   WithId(TableSchema(TableC, Uuid, <<>>), SchemaId(FALSE, <<>>, "c", ".json")),
   WithId(TableSchema(TableC, Uuid, <<>>), SchemaId(TRUE, <<>>, "c", ".json")),
   WithoutTitle(TableSchema(TableC, Uuid, <<>>)),
   WithoutTitle(TableSchema(TableC, Uuid, <<Field("ref", ForeignKey(TableA))>>))}

IdentityInputs ==
  UNION {{<<AuthUsersSchema, x, a, b>>, <<a, b, x, AuthUsersSchema>>, <<b, a, AuthUsersSchema, x>>} :
           x \in LackingIdentity,
           a \in {TableSchema(TableA, Uuid, <<>>)},
           b \in {TableSchema(TableB, Uuid, r) :
                    r \in {<<>>, <<Field("ref", ForeignKey(TableA))>>}}}

InitIdentity == InitRun("generateFakeData", IdentityInputs, 0)

NextIdentity == Next \/ CleanThrows \/ PopulateThrows

SpecIdentity == InitIdentity /\ [][NextIdentity]_vars

-----------------------------------------------------------------------------
(* The sort alone, over schemas whose references sit at different depths:  *)
(* public.a without references, public.b and public.c each with no field,  *)
(* one field or (public.b) two fields that hold a reference in one of the  *)
(* shapes below.                                                           *)

\* A reference to t directly, in a nested object, in array items, in one of
\* several item shapes, and one level deeper in each combination.
DeepShapes(t) ==
  RefShapes(t)
  \cup {TupleArray(<<Uuid, ForeignKey(t)>>),
        Array(Object(<<Field("fk", ForeignKey(t))>>)),
        Object(<<Field("inner", Object(<<Field("fk", ForeignKey(t))>>))>>),
        Object(<<Field("list", Array(ForeignKey(t)))>>),
        Array(Object(<<Field("list", Array(ForeignKey(t)))>>)),
        Array(Array(ForeignKey(t))),
        TupleArray(<<Uuid, Array(ForeignKey(t))>>)}

DeepRefsOfB ==
  {<<>>, <<Field("ref", ForeignKey(TableA)), Field("refs", Array(ForeignKey(TableA)))>>}
  \cup {<<Field("ref", p)>> :
          p \in UNION {DeepShapes(t) : t \in {TableA, TableC, External}}}

DeepRefsOfC ==
  {<<>>} \cup {<<Field("ref", p)>> : p \in UNION {DeepShapes(t) : t \in {TableA, External}}}

GraphInputs ==
  UNION {{<<TableSchema(TableA, Uuid, <<>>), b, c>>, <<c, b, TableSchema(TableA, Uuid, <<>>)>>} :
           b \in {TableSchema(TableB, Uuid, r) : r \in DeepRefsOfB},
           c \in {TableSchema(TableC, Uuid, r) : r \in DeepRefsOfC}}

InitGraph == InitRun("generateFakeData", GraphInputs, 0)

SpecGraph == InitGraph /\ [][Sort]_vars

-----------------------------------------------------------------------------
(* The dependency graph of an input, stated without the sort: B references *)
(* A when A is a known title among the foreign tables of B's schema.       *)

Known(input) == {input[n].title : n \in 1..Len(input)}
\* For each known table b, the known tables that b references.
Graph(input) ==
  [b \in Known(input) |->
     Known(input) \cap UNION {Range(findForeignTables(input[n])) :
                               n \in {m \in 1..Len(input) : input[m].title = b}}]
References(input, b) == Graph(input)[b]
\* The tables that reference a.
DependentsIn(g, a) == {b \in DOMAIN g : a \in g[b]}

RECURSIVE ClosureIn(_, _)
ClosureIn(g, S) ==
  LET more == S \cup UNION {DependentsIn(g, a) : a \in S}
  IN IF more = S THEN S ELSE ClosureIn(g, more)

\* t lies on a cycle: some chain of references leads from t back to t.
OnCycleIn(g, t) == t \in ClosureIn(g, DependentsIn(g, t))
OnCycle(input, t) == OnCycleIn(Graph(input), t)
\* A cycle can be reached from t (t need not lie on it).
ReachesCycle(input, t) ==
  LET g == Graph(input) IN \E c \in ClosureIn(g, {t}) : OnCycleIn(g, c)
Acyclic(input) == LET g == Graph(input) IN \A t \in DOMAIN g : ~OnCycleIn(g, t)

InputIndex(t) == CHOOSE n \in 1..Len(schemas) : schemas[n].title = t

-----------------------------------------------------------------------------
\* C1: on an acyclic dependency graph topologicalSort returns an order, and
\* in it every referenced known table A comes before each other table B that
\* references it.
C1_ParentsBeforeChildren ==
  (pc # "sort" /\ Acyclic(schemas)) =>
    /\ sorted.ok
    /\ LET g == Graph(schemas)
       IN \A b \in DOMAIN g : \A a \in g[b] :
            a # b => /\ IndexOf(sorted.order, a) > 0
                     /\ IndexOf(sorted.order, a) < IndexOf(sorted.order, b)

\* C1 witness: an acyclic input sorted, in which a table is listed before a
\* table it references, so the sort had to move it.
C1_Witness ==
  /\ pc # "sort"
  /\ Acyclic(schemas)
  /\ sorted.ok
  /\ \E b \in Known(schemas) : \E a \in References(schemas, b) :
       InputIndex(b) < InputIndex(a)

\* What a run that the sort rejected (or that has not sorted yet) has done:
\* no DELETE, no SELECT, no synthesized row, no INSERT.
AbortedBySort ==
  /\ pc \in {"sort", "rejected"}
  /\ pc = "rejected" => ~sorted.ok
  /\ log = <<>>
  /\ fakeDataMap = <<>>
  /\ fakeDataArray = <<>>
  /\ rng = 1
  /\ failures = 0

\* C2: when the references contain a cycle, the sort throws and the run
\* ends there: no DELETE, no synthesized row, no INSERT (stated as its
\* contrapositive: a run that got any further has acyclic schemas).
C2_CycleAbortsRun == ~AbortedBySort => Acyclic(schemas)

\* C2 witness: a run over cyclic schemas, rejected by the sort.
C2_Witness == ~Acyclic(schemas) /\ pc = "rejected" /\ ~sorted.ok

\* C3 as claimed: the table named in the cycle error lies on a cycle.
C3_ErrorNamesCycleNode ==
  pc = "rejected" => OnCycle(schemas, sorted.node)

-----------------------------------------------------------------------------
(* The row synthesized last, with what was known when it was synthesized: *)
(* its table, its position, and the fixture store it was resolved         *)
(* against (the entries of fakeDataMap stored before its table's).        *)

HasLatest == fakeDataArray # <<>> \/ fakeDataMap # <<>>
Latest ==
  IF fakeDataArray # <<>>
  THEN [title |-> sorted.order[tableIdx], at |-> Len(fakeDataArray) - 1,
        row |-> fakeDataArray[Len(fakeDataArray)], store |-> fakeDataMap]
  ELSE LET e == fakeDataMap[Len(fakeDataMap)]
       IN [title |-> e.key, at |-> Len(e.val) - 1, row |-> e.val[Len(e.val)],
           store |-> SubSeq(fakeDataMap, 1, Len(fakeDataMap) - 1)]
LatestSchema == FindSchema(Latest.title)

\* The rows a protected table holds in the database: auth.users holds users,
\* public.api_auth one row; the runs never learn of any other.
ApiAuthKey == Value("apikey", 1, <<>>, <<>>)
ExistingRows(t) ==
  IF t = AuthUsers THEN users ELSE IF t = ApiAuth THEN <<ApiAuthKey>> ELSE <<>>
Protected(t) == StartsWithAuth(t) \/ EndsWithApiAuth(t)

\* The foreign-reference fields of a record that are not generated, at top
\* level and in nested objects: the target, whether the record has the key,
\* its value, and the index the enclosing record was synthesized with.
RECURSIVE FieldSites(_, _)
FieldSites(properties, rec) ==
  UNION {LET f == properties[n]
             v == Get(rec.fields, f.key)
         IN IF f.prop.isGenerated THEN {}
            ELSE IF f.prop.foreignTable # NoTable
            THEN {[target |-> f.prop.foreignTable, present |-> HasKey(rec.fields, f.key),
                   val |-> v, index |-> rec.n]}
            ELSE IF v.kind = "object" /\ f.prop.hasProperties
            THEN FieldSites(f.prop.properties, v)
            ELSE {} :
         n \in 1..Len(properties)}

\* Those fields, and the elements of arrays whose items are foreign
\* references, that hold a value: the target and the value.
RECURSIVE RefValues(_, _)
RefValues(properties, rec) ==
  UNION {LET f == properties[n]
             v == Get(rec.fields, f.key)
         IN IF f.prop.isGenerated \/ ~HasKey(rec.fields, f.key) THEN {}
            ELSE IF f.prop.foreignTable # NoTable
            THEN {[target |-> f.prop.foreignTable, val |-> v]}
            ELSE IF v.kind = "object" /\ f.prop.hasProperties
            THEN RefValues(f.prop.properties, v)
            ELSE IF v.kind = "array" /\ f.prop.itemsForm # "none"
            THEN UNION {IF f.prop.items[1].foreignTable # NoTable
                        THEN {[target |-> f.prop.items[1].foreignTable,
                               val |-> v.elems[m]]}
                        ELSE IF v.elems[m].kind = "object" /\ f.prop.items[1].hasProperties
                        THEN RefValues(f.prop.items[1].properties, v.elems[m])
                        ELSE {} :
                        m \in 1..Len(v.elems)}
            ELSE {} :
         n \in 1..Len(properties)}

\* The keys of the rows available for table t when the row was resolved.
AvailableKeys(store, t) ==
  {RowId(r) : r \in Range(MapGet(store, t))} \cup Range(ExistingRows(t))

\* C4 as claimed: every foreign reference present in a synthesized row (top
\* level, nested object or array element) is the key of a row that was in the
\* fixture store or the external store, and is neither undefined nor null.
C4_ForeignKeySoundness ==
  (HasLatest /\ failures = 0) =>
    \A s \in RefValues(LatestSchema.properties, Latest.row) :
      /\ s.val.kind \notin {"undefined", "null"}
      /\ s.val \in AvailableKeys(Latest.store, s.target)

\* The top-level and nested foreign-reference fields of the latest row.
LatestSites == FieldSites(LatestSchema.properties, Latest.row)

\* C5: a foreign-reference field whose target has n >= 1 rows in the fixture
\* store gets the key of the target's row (i mod n), for the row of index i.
C5_RoundRobinKey ==
  HasLatest =>
    \A s \in LatestSites :
      LET foreignData == MapGet(Latest.store, s.target)
      IN (s.target # AuthUsers /\ Len(foreignData) >= 1) =>
           /\ s.present
           /\ s.val = RowId(foreignData[(Latest.at % Len(foreignData)) + 1])

\* C5 witness: a row of index 3 whose reference holds the key, a faker draw,
\* of the parent's row 3, and not that of its row 0.
C5_Witness ==
  /\ HasLatest
  /\ Latest.at = 3
  /\ \E s \in LatestSites :
       /\ s.target = TableA /\ s.present /\ s.val.kind = "rand"
       /\ s.val = RowId(MapGet(Latest.store, TableA)[4])
       /\ s.val # RowId(MapGet(Latest.store, TableA)[1])

\* The SELECTs sent for the latest row.
LatestSelects ==
  {n \in 1..Len(log) : /\ log[n].op = "SELECT" /\ log[n].by = Latest.title
                       /\ log[n].row = Latest.at}

\* C6 as claimed: with k >= 1 rows in auth.users, a reference to it in the
\* row of index i holds the i-th existing key when i < k and some existing
\* key (the fallback) when i >= k, in a run where no query failed.
C6_UsersKeyWithFallback ==
  (HasLatest /\ failures = 0) =>
    \A s \in LatestSites :
      (s.target = AuthUsers /\ Len(users) >= 1) =>
         /\ s.present
         /\ s.val \in Range(users)
         /\ s.index < Len(users) => s.val = users[s.index + 1]

\* C7 as claimed: a reference to a protected table (auth.*, *api_auth) is
\* set from that table's existing rows whenever it has at least one, in a
\* run where no query failed.
C7_ProtectedTargetsLookedUp ==
  (HasLatest /\ failures = 0) =>
    \A s \in LatestSites :
      (Protected(s.target) /\ Len(ExistingRows(s.target)) >= 1) =>
         s.present /\ s.val \in Range(ExistingRows(s.target))

\* No row is available for a reference to t from the row of index i: no
\* entry or an empty one in the store, an empty SELECT, or a failed one.
Unavailable(t, i, store) ==
  IF t = AuthUsers
  THEN i >= Len(users) \/ \E n \in LatestSelects : ~log[n].ok
  ELSE Len(MapGet(store, t)) = 0

\* The top-level keys a row keeps whether or not its references resolve.
PlainKeys(schema) ==
  {schema.properties[n].key :
     n \in {m \in 1..Len(schema.properties) :
              /\ ~schema.properties[m].prop.isGenerated
              /\ schema.properties[m].prop.foreignTable = NoTable}}

\* The tables main synthesizes: the known titles it does not skip.
Synthesized == {t \in Known(schemas) : ~SkippedByMain(t)}

\* C8: a reference with no row available is left out of the row, the row is
\* still returned with its other fields, and the run goes on: it ends with
\* RowCount rows for every table it synthesizes.
C8_SoftFail ==
  /\ HasLatest =>
       /\ Latest.row.kind = "object"
       /\ PlainKeys(LatestSchema) \subseteq Range(Keys(Latest.row.fields))
       /\ \A s \in LatestSites :
            Unavailable(s.target, s.index, Latest.store) => ~s.present
  /\ pc \in {"insert", "done"} =>
       \A t \in Synthesized : Len(MapGet(fakeDataMap, t)) = RowCount

\* C8 witness: a finished run in which a SELECT failed for a row that
\* auth.users had a key for, and the stored row lacks the reference.
C8_Witness ==
  /\ pc = "done"
  /\ \E n \in 1..Len(log) :
       /\ log[n].op = "SELECT" /\ ~log[n].ok /\ log[n].row < Len(users)
       /\ \E s \in FieldSites(FindSchema(log[n].by).properties,
                              MapGet(fakeDataMap, log[n].by)[log[n].row + 1]) :
            s.target = AuthUsers /\ ~s.present

\* The titles main's loop has gone through and synthesized rows for.
Populated ==
  SelectSeq(SubSeq(sorted.order, 1, tableIdx - 1),
            LAMBDA t : HasSchema(t) /\ ~SkippedByMain(t))

\* Rows synthesized with the indices 0, 1, 2, ... in that order.
InIndexOrder(rows) == \A j \in 1..Len(rows) : rows[j].kind = "object" /\ rows[j].n = j - 1

\* C9: main fills fakeDataMap in the order topologicalSort returned, gives
\* each table it synthesizes RowCount rows made with the indices 0, 1, ... in
\* order, and when a row of a table is synthesized every table it references
\* (and main synthesizes) already has its RowCount rows in the store.
C9_PopulateInSortedOrder ==
  pc \in {"populate", "insert", "done"} =>
    /\ Keys(fakeDataMap) = Populated
    /\ \A n \in 1..Len(fakeDataMap) :
         Len(fakeDataMap[n].val) = RowCount /\ InIndexOrder(fakeDataMap[n].val)
    /\ Len(fakeDataArray) < RowCount /\ InIndexOrder(fakeDataArray)
    /\ HasLatest =>
         \A a \in Range(findForeignTables(LatestSchema)) :
           (a \in Known(schemas) /\ ~SkippedByMain(a)) =>
             Len(MapGet(Latest.store, a)) = RowCount

\* C9 witness: the first row of a table that the input lists before the
\* table it references, synthesized after all rows of the referenced table.
C9_Witness ==
  /\ pc = "populate"
  /\ Len(fakeDataArray) = 1
  /\ \E a \in Range(findForeignTables(LatestSchema)) :
       /\ a \in Synthesized
       /\ InputIndex(Latest.title) < InputIndex(a)
       /\ Len(MapGet(fakeDataMap, a)) = RowCount

\* The INSERTs of the log for record j (from 0) of table t.
Inserts(t, j) ==
  {n \in 1..Len(log) : log[n].op = "INSERT" /\ log[n].table = t /\ log[n].row = j}

\* C10 as claimed: insertFakeData attempts the INSERT of every record,
\* whatever INSERT failed before it.
C10_BestEffortInsertion ==
  pc = "done" =>
    \A e \in 1..Len(fakeDataMap) : \A j \in 1..Len(fakeDataMap[e].val) :
      Inserts(fakeDataMap[e].key, j - 1) # {}


-----------------------------------------------------------------------------
(* The queries of the log by kind, and the records of the fixture store in *)
(* the order Object.entries and the inner loop visit them.                 *)

InsertLog == SelectSeq(log, LAMBDA q : q.op = "INSERT")
InsertsIssued == [n \in 1..Len(InsertLog) |-> <<InsertLog[n].table, InsertLog[n].row>>]
Deletes(t) == {n \in 1..Len(log) : log[n].op = "DELETE" /\ log[n].table = t}
InsertsInto(t) == {n \in 1..Len(log) : log[n].op = "INSERT" /\ log[n].table = t}

RECURSIVE RecordsInOrder(_)
RecordsInOrder(map) ==
  IF map = <<>> THEN <<>>
  ELSE [n \in 1..Len(Head(map).val) |-> <<Head(map).key, n - 1>>]
       \o RecordsInOrder(Tail(map))

IsPrefix(s, t) == Len(s) <= Len(t) /\ SubSeq(t, 1, Len(s)) = s

\* The titles of the order topologicalSort returned that main synthesizes.
SortedSynthesized ==
  SelectSeq(sorted.order, LAMBDA t : HasSchema(t) /\ ~SkippedByMain(t))

\* C11: insertFakeData attempts the INSERTs record by record in the order of
\* the fixture store, one per record, the tables in the order topologicalSort
\* returned and the rows of a table in index order; so every INSERT into a
\* non-protected table A is attempted before the first INSERT into a table B
\* that references A.
C11_InsertsInSortedOrder ==
  pc \in {"insert", "done"} =>
    /\ Keys(fakeDataMap) = SortedSynthesized
    /\ IsPrefix(InsertsIssued, RecordsInOrder(fakeDataMap))
    /\ pc = "done" => InsertsIssued = RecordsInOrder(fakeDataMap)
    /\ LET g == Graph(schemas)
       IN \A b \in DOMAIN g : \A a \in g[b] :
            (a # b /\ ~Protected(a) /\ InsertsInto(b) # {}) =>
               /\ Cardinality(InsertsInto(a)) = RowCount
               /\ \A n \in InsertsInto(a) : \A m \in InsertsInto(b) : n < m

\* C11 witness: a finished run in which an INSERT failed, over an input that
\* lists table B before the table A it references, both inserted into.
C11_Witness ==
  /\ pc = "done"
  /\ \E n \in 1..Len(log) : log[n].op = "INSERT" /\ ~log[n].ok
  /\ \E b \in Known(schemas) : \E a \in References(schemas, b) :
       /\ ~Protected(a) /\ InputIndex(b) < InputIndex(a)
       /\ InsertsInto(a) # {} /\ InsertsInto(b) # {}

\* C12 as claimed: cleanDatabase deletes the rows of a table B that references
\* a known table A before it deletes from A: every DELETE on A comes after a
\* successful DELETE on each table it purges that references A.
C12_ChildrenPurgedFirst ==
  LET g == Graph(schemas)
  IN \A b \in DOMAIN g : \A a \in g[b] :
       (a # b /\ ~SkippedByClean(b)) =>
          \A n \in Deletes(a) : \E m \in Deletes(b) : m < n /\ log[m].ok

\* C13: a protected table (auth.*, *api_auth) is left untouched: no DELETE
\* and no INSERT names it, no row is synthesized for it and the fixture store
\* has no entry for it.
C13_ProtectedUntouched ==
  \A t \in Known(schemas) :
    Protected(t) =>
      /\ \A n \in 1..Len(log) : log[n].op \in {"DELETE", "INSERT"} => log[n].table # t
      /\ ~MapHas(fakeDataMap, t)
      /\ (pc = "populate" /\ fakeDataArray # <<>>) => sorted.order[tableIdx] # t

\* C13 witness: a finished run over schemas that include auth.users and
\* public.api_auth, which purged and inserted into the other tables and read
\* a key of auth.users.
C13_Witness ==
  /\ pc = "done"
  /\ {AuthUsers, ApiAuth} \subseteq Known(schemas)
  /\ \E n \in 1..Len(log) : log[n].op = "DELETE" /\ log[n].ok
  /\ \E n \in 1..Len(log) : log[n].op = "INSERT" /\ log[n].ok
  /\ \E n \in 1..Len(log) : log[n].op = "SELECT" /\ log[n].ok /\ log[n].table = AuthUsers

\* C14 as claimed: after a second execution with the same schemas against
\* the same database every non-protected table holds as many rows as after
\* the first one (stated for executions in which every SELECT and every
\* INSERT succeeded, so that only the purge can make the difference).
C14_SameCountsAfterSecondRun ==
  (/\ run = 2
   /\ pc = "done"
   /\ \A n \in 1..Len(log) : log[n].op \in {"SELECT", "INSERT"} => log[n].ok) =>
     \A t \in DOMAIN db : ~Protected(t) => db[t] = firstRun[t]

\* C15: on an acyclic dependency graph topologicalSort succeeds and returns
\* a permutation of the input titles: each title once, tables without
\* dependencies and dependents included, and never a table that is only
\* referenced (public.ext), which does not make the sort fail either.
C15_SortIsPermutation ==
  (pc # "sort" /\ Acyclic(schemas)) =>
    /\ sorted.ok
    /\ Len(sorted.order) = Cardinality(Known(schemas))
    /\ Range(sorted.order) = Known(schemas)
    /\ External \notin Range(sorted.order)

\* C15 witness: an acyclic input sorted, in which a schema references the
\* unknown table, a table references another one, and auth.users neither
\* references nor is referenced.
C15_Witness ==
  /\ pc # "sort"
  /\ sorted.ok
  /\ RefersTo(schemas, External)
  /\ \E b \in Known(schemas) : References(schemas, b) # {}
  /\ References(schemas, AuthUsers) = {} /\ DependentsIn(Graph(schemas), AuthUsers) = {}
  /\ AuthUsers \in Range(sorted.order)

\* The tables a property refers to at any depth: itself, the fields of a
\* nested object, the items of an array in every item shape, and so on down.
RECURSIVE DeepRefs(_)
DeepRefs(p) ==
  (IF p.foreignTable # NoTable THEN {p.foreignTable} ELSE {})
  \cup UNION {DeepRefs(p.properties[n].prop) : n \in 1..Len(p.properties)}
  \cup UNION {DeepRefs(p.items[n]) : n \in 1..Len(p.items)}

\* C16 as claimed: the adjacency list topologicalSort builds has the edge
\* A -> B exactly when a field of B's schema, at any depth, refers to the known
\* table A, and has it once.
C16_EdgesAtAnyDepth ==
  pc # "sort" =>
    LET adjList == AdjList(schemas)
    IN \A n \in 1..Len(schemas) : \A a \in Known(schemas) :
         /\ schemas[n].title \in Range(adjList[a]) <=> a \in DeepRefs(schemas[n])
         /\ Len(adjList[a]) = Cardinality(Range(adjList[a]))

\* The keys of generated fields that a record holds, at top level, in its
\* nested records (finished or pending) and in the records of its arrays.
RECURSIVE GeneratedKeysIn(_, _)
GeneratedKeysIn(properties, rec) ==
  UNION {LET f == properties[n]
             v == Get(rec.fields, f.key)
         IN (IF f.prop.isGenerated /\ HasKey(rec.fields, f.key) THEN {f.key} ELSE {})
            \cup (IF v.kind \in {"object", "promise"} /\ f.prop.hasProperties
                  THEN GeneratedKeysIn(f.prop.properties, v)
                  ELSE IF v.kind = "array" /\ f.prop.itemsForm # "none"
                  THEN UNION {IF v.elems[m].kind \in {"object", "promise"}
                                 /\ f.prop.items[1].hasProperties
                              THEN GeneratedKeysIn(f.prop.items[1].properties, v.elems[m])
                              ELSE {} : m \in 1..Len(v.elems)}
                  ELSE {}) :
         n \in 1..Len(properties)}

\* The top-level fields of table t that are generated.
GeneratedColumns(t) ==
  {FindSchema(t).properties[n].key :
     n \in {m \in 1..Len(FindSchema(t).properties) :
              FindSchema(t).properties[m].prop.isGenerated}}

\* C17: a generated field is in no synthesized row, at top level or in a
\* nested record, whether it also declares an enum, a type or a foreign
\* reference, and no INSERT names a generated column.
C17_GeneratedNeverSupplied ==
  /\ HasLatest => GeneratedKeysIn(LatestSchema.properties, Latest.row) = {}
  /\ \A n \in 1..Len(log) :
       log[n].op = "INSERT" => Range(log[n].columns) \cap GeneratedColumns(log[n].table) = {}

\* C17 witness: a finished run whose last row has a nested record with a
\* generated reference to public.a, which had rows to resolve it with, the
\* record keeping its plain field, and the row inserted.
C17_Witness ==
  /\ pc = "done"
  /\ HasLatest
  /\ Len(MapGet(Latest.store, TableA)) > 0
  /\ \E n \in 1..Len(LatestSchema.properties) :
       LET f == LatestSchema.properties[n]
       IN /\ f.prop.hasProperties
          /\ \E m \in 1..Len(f.prop.properties) :
               /\ f.prop.properties[m].prop.isGenerated
               /\ f.prop.properties[m].prop.foreignTable = TableA
          /\ HasKey(Get(Latest.row.fields, f.key).fields, "v")
          /\ ~HasKey(Get(Latest.row.fields, f.key).fields, "gfk")
  /\ InsertsInto(Latest.title) # {}

\* The schemas that have their identity: a title and a $id of the form
\* <namespace>/<name>.
HasIdentity(schema) ==
  /\ schema.title # NoTable
  /\ schema.id.present
  /\ extractSchemaKeyFromId(schema.id).ok
Remaining ==
  {schemas[n].title : n \in {m \in 1..Len(schemas) : HasIdentity(schemas[m])}}

\* C18 as claimed: a schema without identity does not stop the run: main is
\* not rejected, and a run in which no query on a table failed ends having
\* purged, synthesized and inserted the rows of every remaining schema it
\* does not skip.
C18_RunGoesOnWithoutTheSchema ==
  /\ pc # "failed"
  /\ (pc = "done" /\ failures = 0) =>
       \A t \in Remaining :
         ~SkippedByMain(t) =>
            /\ \E n \in Deletes(t) : log[n].ok
            /\ Len(MapGet(fakeDataMap, t)) = RowCount
            /\ Cardinality(InsertsInto(t)) = RowCount

\* C19 as claimed: while main synthesizes the rows of a table, the rows it
\* has synthesized so far are in the fixture store under the table's key, so
\* that row N can resolve a reference to its own table to one of rows 0..N-1.
C19_EarlierRowsInStore ==
  (pc = "populate" /\ fakeDataArray # <<>>) =>
    IsPrefix(fakeDataArray, MapGet(fakeDataMap, sorted.order[tableIdx]))

\* The nested-object fields of a schema that generatePropertyData synthesizes.
NestedFields(schema) ==
  {n \in 1..Len(schema.properties) :
     LET q == schema.properties[n].prop
     IN /\ ~q.isGenerated /\ q.foreignTable = NoTable /\ q.enum = <<>>
        /\ q.format \notin {"uuid", "date-time"}
        /\ q.type = "object" /\ q.hasProperties}

\* C20 as claimed: the nested record of a row is a finished record, made with
\* the row's index, and a reference in it to a table with n >= 1 rows in the
\* run's store holds the key of the target's row (i mod n).
C20_NestedLikeTopLevel ==
  HasLatest =>
    \A n \in NestedFields(LatestSchema) :
      LET f == LatestSchema.properties[n]
          v == Get(Latest.row.fields, f.key)
      IN /\ v.kind = "object"
         /\ v.n = Latest.at
         /\ \A s \in FieldSites(f.prop.properties, [v EXCEPT !.kind = "object"]) :
              LET foreignData == MapGet(Latest.store, s.target)
              IN (s.target # AuthUsers /\ Len(foreignData) >= 1) =>
                   /\ s.present
                   /\ s.val = RowId(foreignData[(Latest.at % Len(foreignData)) + 1])

\* The array fields of a record whose items are a foreign reference: the
\* target and the elements synthesized for the field.
ArraySites(properties, rec) ==
  {[target |-> properties[n].prop.items[1].foreignTable,
    elems |-> Get(rec.fields, properties[n].key).elems] :
     n \in {m \in 1..Len(properties) :
              LET q == properties[m].prop
              IN /\ ~q.isGenerated /\ q.foreignTable = NoTable /\ q.enum = <<>>
                 /\ q.type = "array" /\ q.itemsForm = "single"
                 /\ q.items[1].foreignTable # NoTable}}

\* C21 as claimed: an array field holds ArraySize elements, and when its
\* items are a reference to a table with n >= 1 rows in the store, each
\* element is the key of the target's row (i mod n), as a top-level
\* reference of the row of index i would be.
C21_ArrayElementsResolved ==
  HasLatest =>
    \A s \in ArraySites(LatestSchema.properties, Latest.row) :
      LET foreignData == MapGet(Latest.store, s.target)
      IN /\ Len(s.elems) = ArraySize
         /\ (s.target # AuthUsers /\ Len(foreignData) >= 1) =>
              \A m \in 1..Len(s.elems) :
                s.elems[m] = RowId(foreignData[(Latest.at % Len(foreignData)) + 1])

\* The failed DELETEs of the log.
FailedDeletes == {n \in 1..Len(log) : log[n].op = "DELETE" /\ ~log[n].ok}

\* C22: a DELETE that fails ends the purge (no DELETE follows it), main is
\* not rejected, and the run ends with RowCount rows synthesized and RowCount
\* INSERTs attempted for every table main synthesizes, purged or not.
C22_FailedDeleteEndsPurgeOnly ==
  FailedDeletes # {} =>
    /\ \A n \in FailedDeletes : \A m \in 1..Len(log) : log[m].op = "DELETE" => m <= n
    /\ pc \in {"populate", "insert", "done"}
    /\ pc = "done" =>
         \A t \in Synthesized :
           /\ Len(MapGet(fakeDataMap, t)) = RowCount
           /\ Cardinality(InsertsInto(t)) = RowCount

\* C22 witness: a finished run whose first DELETE failed, which left a table
\* after it unpurged and still inserted RowCount rows into that table.
C22_Witness ==
  /\ pc = "done"
  /\ FailedDeletes = {1}
  /\ \E t \in Synthesized :
       /\ Deletes(t) = {}
       /\ Cardinality({n \in InsertsInto(t) : log[n].ok}) = RowCount

=============================================================================
